---- MODULE Spec2Model ----
(***************************************************************************)
(* Tic-Tac-Toe with AI (PyQt6): the game window TicTacToeGame, its event   *)
(* handlers (cell clicks, the deferred AI-move timer, reset, mode change)  *)
(* and the minimax search of the "Smart AI" mode.                          *)
(***************************************************************************)
EXTENDS Integers, Sequences, FiniteSets, TLC

VARIABLES
    buttons,          \* self.buttons[r][c].text(): "", "X" or "O"
    enabled,          \* the board buttons are enabled (disable_all / reset_game)
    current_player,   \* self.current_player
    mode,             \* self.mode
    game_moves,       \* self._game_moves
    last_game_data,   \* self.last_game_data: None, or the record of the ended game
    timers,           \* pending QTimer.singleShot(500, self.ai_move) callbacks
    error,            \* "" while the process runs; the unhandled exception that ended it
    search_board,     \* the list of lists handed to the engine's functions
    search_max,       \* the argument is_maximizing_player
    search_ret,       \* None before a call; the call made and what it returned
    conn,             \* db_manager.conn and .cursor are set (the store is connected)
    games,            \* the rows of the table games of game_history.db, as inserted
    seq,              \* the last id AUTOINCREMENT gave out
    store_ret         \* the last call made on the store and what it returned

vars == <<buttons, enabled, current_player, mode, game_moves, last_game_data,
          timers, error, search_board, search_max, search_ret,
          conn, games, seq, store_ret>>

game_vars == <<buttons, enabled, current_player, mode, game_moves, last_game_data,
               timers, error>>

search_vars == <<search_board, search_max, search_ret>>

store_vars == <<conn, games, seq, store_ret>>

-----------------------------------------------------------------------------
(* Bounds of the model *)

\* pending AI-move timers kept at once (the code sets no limit)
MaxTimers == 1

\* rows ever inserted into the table games (the code sets no limit)
MaxGames == 3

-----------------------------------------------------------------------------
(* Values *)

\* Python's None where an object (a move, the game record, a result) is expected
None == <<>>

\* Python's None returned by check_winner / _check_winner_board
NoWinner == "None"

Range3 == 0..2

Marks == {"X", "O"}

Texts == {"", "X", "O"}

Modes == {"Random AI", "Center AI", "Smart AI", "Player vs Player"}

\* float('inf') and -float('inf'): every score is in -1..1
PosInf == 2
NegInf == -2

EmptyBoard == [r \in Range3 |-> [c \in Range3 |-> ""]]

AllBoards == [Range3 -> [Range3 -> Texts]]

SetCell(board, r, c, text) == [board EXCEPT ![r][c] = text]

\* [(r, c) for r in range(3) for c in range(3) if self.buttons[r][c].text() == ""]
EmptyCells(board) == {rc \in Range3 \X Range3 : board[rc[1]][rc[2]] = ""}

CountOf(board, text) == Cardinality({rc \in Range3 \X Range3 : board[rc[1]][rc[2]] = text})

-----------------------------------------------------------------------------
(* Game-end detection *)

\* a == b == c != ""
Line3(a, b, c) == a = b /\ b = c /\ c # ""

RECURSIVE check_winner_rows(_, _), check_winner_cols(_, _)

check_winner_rows(board, i) ==
    IF i = 3 THEN NoWinner
    ELSE IF Line3(board[i][0], board[i][1], board[i][2]) THEN board[i][0]
    ELSE check_winner_rows(board, i + 1)

check_winner_cols(board, i) ==
    IF i = 3 THEN NoWinner
    ELSE IF Line3(board[0][i], board[1][i], board[2][i]) THEN board[0][i]
    ELSE check_winner_cols(board, i + 1)

check_winner_diagonals(board) ==
    IF Line3(board[0][0], board[1][1], board[2][2]) THEN board[0][0]
    ELSE IF Line3(board[0][2], board[1][1], board[2][0]) THEN board[0][2]
    ELSE NoWinner

\* _check_winner_board: all rows, then all columns, then the diagonals
check_winner_board(board) ==
    LET rows == check_winner_rows(board, 0)
        cols == check_winner_cols(board, 0)
    IN  IF rows # NoWinner THEN rows
        ELSE IF cols # NoWinner THEN cols
        ELSE check_winner_diagonals(board)

is_full_board(board) == \A i \in Range3 : \A j \in Range3 : board[i][j] # ""

RECURSIVE check_winner_scan(_, _), check_winner_scan_RowTwice(_, _)

\* check_winner_scan with the column test reading row i again
check_winner_scan_RowTwice(btns, i) ==
    IF i = 3 THEN NoWinner
    ELSE IF Line3(btns[i][0], btns[i][1], btns[i][2]) THEN btns[i][0]
    ELSE IF Line3(btns[i][0], btns[i][1], btns[i][2]) THEN btns[0][i]
    ELSE check_winner_scan_RowTwice(btns, i + 1)

\* the loop of check_winner: row i, then column i, for i = 0, 1, 2
check_winner_scan(btns, i) ==
    IF i = 3 THEN NoWinner
    ELSE IF Line3(btns[i][0], btns[i][1], btns[i][2]) THEN btns[i][0]
    ELSE IF Line3(btns[0][i], btns[1][i], btns[2][i]) THEN btns[0][i]
    ELSE check_winner_scan(btns, i + 1)

\* check_winner, on the texts of self.buttons
check_winner(btns) ==
    LET scan == check_winner_scan(btns, 0)
    IN  IF scan # NoWinner THEN scan
        ELSE IF Line3(btns[0][0], btns[1][1], btns[2][2]) THEN btns[0][0]
        ELSE IF Line3(btns[0][2], btns[1][1], btns[2][0]) THEN btns[0][2]
        ELSE NoWinner

is_full(btns) == \A i \in Range3 : \A j \in Range3 : btns[i][j] # ""

-----------------------------------------------------------------------------
(* Minimax search.  The board is a mutable list of lists: every call returns *)
(* the board as it leaves it, next to the (score, move) pair.                *)

\* UndoMove with the placement left on the board
UndoMove_Skip(board, r, c) == board

\* board[r][c] = "" after the recursive call
UndoMove(board, r, c) == SetCell(board, r, c, "")

\* minimax_base with the two scores exchanged
minimax_base_SignSwapped(board) ==
    LET winner == check_winner_board(board)
    IN  IF winner = "O" THEN <<-1, None>>
        ELSE IF winner = "X" THEN <<1, None>>
        ELSE IF is_full_board(board) THEN <<0, None>>
        ELSE None

\* the base case: a line decides before a full board does
minimax_base(board) ==
    LET winner == check_winner_board(board)
    IN  IF winner = "O" THEN <<1, None>>
        ELSE IF winner = "X" THEN <<-1, None>>
        ELSE IF is_full_board(board) THEN <<0, None>>
        ELSE None

\* Improves with >= and <=: the last of the equally scored moves is kept
Improves_NonStrict(is_maximizing_player, score, best_score) ==
    IF is_maximizing_player THEN score >= best_score ELSE score <= best_score

\* if score > best_score (maximizing) / if score < best_score (minimizing)
Improves(is_maximizing_player, score, best_score) ==
    IF is_maximizing_player THEN score > best_score ELSE score < best_score

\* The recursion is evaluated bottom-up: the results of the calls on boards with
\* fewer empty cells are tabulated first, and `deeper` holds them, so that a
\* recursive call is a look-up of its result.  A call is numbered by its board
\* (read as a number in base 3) and its flag.
Digit(text) == IF text = "" THEN 0 ELSE IF text = "X" THEN 1 ELSE 2

TextOf(digit) == IF digit = 0 THEN "" ELSE IF digit = 1 THEN "X" ELSE "O"

RECURSIVE BoardCode(_, _)

BoardCode(board, k) ==
    IF k = 9 THEN 0 ELSE Digit(board[k \div 3][k % 3]) + 3 * BoardCode(board, k + 1)

CallIndex(board, is_maximizing_player) ==
    2 * BoardCode(board, 0) + (IF is_maximizing_player THEN 1 ELSE 2)

CallCount == 2 * (3 ^ 9)

CallOf(n) ==
    LET code  == (n - 1) \div 2
        board == [r \in Range3 |-> [c \in Range3 |-> TextOf((code \div (3 ^ (3 * r + c))) % 3)]]
    IN  [board |-> board, is_maximizing_player |-> (n % 2 = 1),
         empty |-> Cardinality(EmptyCells(board))]

Calls == SubSeq([n \in 1..CallCount |-> CallOf(n)], 1, CallCount)

RECURSIVE minimax_loop(_, _, _, _, _, _)

\* for r in range(3): for c in range(3): ..., at cell k = 3 * r + c
minimax_loop(board, is_maximizing_player, k, best_score, best_move, deeper) ==
    IF k = 9 THEN [score |-> best_score, move |-> best_move, board |-> board]
    ELSE LET r == k \div 3
             c == k % 3
         IN  IF board[r][c] = ""
             THEN LET placed == SetCell(board, r, c,
                                        IF is_maximizing_player THEN "O" ELSE "X")
                      child  == deeper[CallIndex(placed, ~is_maximizing_player)]
                      undone == UndoMove(child.board, r, c)
                      better == Improves(is_maximizing_player, child.score, best_score)
                  IN  minimax_loop(undone, is_maximizing_player, k + 1,
                                   IF better THEN child.score ELSE best_score,
                                   IF better THEN <<r, c>> ELSE best_move, deeper)
             ELSE minimax_loop(board, is_maximizing_player, k + 1, best_score,
                               best_move, deeper)

minimax_call(board, is_maximizing_player, deeper) ==
    LET base == minimax_base(board)
    IN  IF base # None
        THEN [score |-> base[1], move |-> base[2], board |-> board]
        ELSE minimax_loop(board, is_maximizing_player, 0,
                          IF is_maximizing_player THEN NegInf ELSE PosInf, None, deeper)

RECURSIVE SearchTable(_)

\* the results of all calls on boards with at most n empty cells
SearchTable(n) ==
    LET deeper == IF n = 0 THEN <<>> ELSE SearchTable(n - 1)
    IN  SubSeq([i \in 1..CallCount |->
                   IF Calls[i].empty < n THEN deeper[i]
                   ELSE IF Calls[i].empty = n
                   THEN minimax_call(Calls[i].board, Calls[i].is_maximizing_player, deeper)
                   ELSE None],
               1, CallCount)

SearchResults == SearchTable(9)

minimax_find_best_move(board, is_maximizing_player) ==
    SearchResults[CallIndex(board, is_maximizing_player)]

-----------------------------------------------------------------------------
(* The game window *)

Move(i, j, player) == [row |-> i, col |-> j, player |-> player]

\* prepare_game_history (the date is wall-clock time, left out)
prepare_game_history(winner, moves) ==
    <<[mode |-> mode, winner |-> winner, move_history |-> moves]>>

\* show_result with the full board tested before the winner
show_result_FullFirst(winner, btns) ==
    IF is_full(btns) THEN "Draw"
    ELSE IF winner # NoWinner THEN winner
    ELSE NoWinner

\* show_result: final_winner, NoWinner when it returns early (the game goes on)
show_result(winner, btns) ==
    IF winner # NoWinner THEN winner
    ELSE IF is_full(btns) THEN "Draw"
    ELSE NoWinner

\* the part of player_move and ai_move after the mark is placed, with btns the
\* texts after it: record the move, winner = self.check_winner(),
\* self.show_result(winner) (disable_all, prepare_game_history)
PlaceMark(i, j, player, btns) ==
    LET moves  == Append(game_moves, Move(i, j, player))
        result == show_result(check_winner(btns), btns)
    IN  /\ buttons' = btns
        /\ game_moves' = moves
        /\ IF result # NoWinner
           THEN /\ enabled' = FALSE
                /\ last_game_data' = prepare_game_history(result, moves)
           ELSE UNCHANGED <<enabled, last_game_data>>

\* player_move without the test that the cell is empty
player_move_Overwrite(i, j) ==
    /\ error = ""
    /\ enabled
    /\ LET btns == SetCell(buttons, i, j, current_player)
       IN  /\ PlaceMark(i, j, current_player, btns)
           /\ IF check_winner(btns) = NoWinner /\ ~is_full(btns)
              THEN IF mode = "Player vs Player"
                   THEN /\ current_player' = (IF current_player = "X" THEN "O" ELSE "X")
                        /\ UNCHANGED timers
                   ELSE IF current_player = "X"
                   THEN /\ timers < MaxTimers
                        /\ timers' = timers + 1
                        /\ UNCHANGED current_player
                   ELSE UNCHANGED <<current_player, timers>>
              ELSE UNCHANGED <<current_player, timers>>
           /\ UNCHANGED <<mode, error>>
    /\ UNCHANGED search_vars
    /\ UNCHANGED store_vars

\* a click on cell (i, j): a disabled button emits no click
player_move(i, j) ==
    /\ error = ""
    /\ enabled
    /\ IF buttons[i][j] = ""
       THEN LET btns == SetCell(buttons, i, j, current_player)
            IN  /\ PlaceMark(i, j, current_player, btns)
                /\ IF check_winner(btns) = NoWinner /\ ~is_full(btns)
                   THEN IF mode = "Player vs Player"
                        THEN /\ current_player' = (IF current_player = "X" THEN "O" ELSE "X")
                             /\ UNCHANGED timers
                        ELSE IF current_player = "X"
                        THEN /\ timers < MaxTimers
                             /\ timers' = timers + 1
                             /\ UNCHANGED current_player
                        ELSE UNCHANGED <<current_player, timers>>
                   ELSE UNCHANGED <<current_player, timers>>
                /\ UNCHANGED <<mode, error>>
       ELSE UNCHANGED game_vars
    /\ UNCHANGED search_vars
    /\ UNCHANGED store_vars

\* ai_choices with Center AI never looking at cell (1, 1)
ai_choices_CenterIgnored(m, btns) ==
    IF m = "Random AI" \/ m = "Center AI"
    THEN IF EmptyCells(btns) # {} THEN EmptyCells(btns) ELSE {<<-1, -1>>}
    ELSE IF m = "Smart AI"
    THEN {minimax_find_best_move(btns, TRUE).move}
    ELSE {<<-1, -1>>}

\* ai_choices with Random AI choosing among all 9 cells
ai_choices_AnyCell(m, btns) ==
    IF m = "Random AI"
    THEN Range3 \X Range3
    ELSE IF m = "Center AI"
    THEN IF btns[1][1] = "" THEN {<<1, 1>>}
         ELSE IF EmptyCells(btns) # {} THEN EmptyCells(btns) ELSE {<<-1, -1>>}
    ELSE IF m = "Smart AI"
    THEN {minimax_find_best_move(btns, TRUE).move}
    ELSE {<<-1, -1>>}

\* the cells ai_move may come to choose in mode m on the board btns (a copy of
\* the texts, for the search): <<-1, -1>> when it chooses none, None when the
\* search returns no move and unpacking it raises TypeError
ai_choices(m, btns) ==
    IF m = "Random AI"
    THEN IF EmptyCells(btns) # {} THEN EmptyCells(btns) ELSE {<<-1, -1>>}
    ELSE IF m = "Center AI"
    THEN IF btns[1][1] = "" THEN {<<1, 1>>}
         ELSE IF EmptyCells(btns) # {} THEN EmptyCells(btns) ELSE {<<-1, -1>>}
    ELSE IF m = "Smart AI"
    THEN {minimax_find_best_move(btns, TRUE).move}
    ELSE {<<-1, -1>>}

ai_move ==
    /\ error = ""
    /\ timers > 0
    /\ timers' = timers - 1
    /\ IF mode = "Player vs Player"
       THEN UNCHANGED <<buttons, enabled, current_player, mode, game_moves,
                        last_game_data, error>>
       ELSE \E ij \in ai_choices(mode, buttons) :
                IF ij = None
                THEN /\ error' = "TypeError"
                     /\ UNCHANGED <<buttons, enabled, current_player, mode,
                                    game_moves, last_game_data>>
                ELSE /\ IF ij[1] # -1 /\ ij[2] # -1 /\ buttons[ij[1]][ij[2]] = ""
                        THEN PlaceMark(ij[1], ij[2], "O", SetCell(buttons, ij[1], ij[2], "O"))
                        ELSE UNCHANGED <<buttons, enabled, game_moves, last_game_data>>
                     /\ UNCHANGED <<current_player, mode, error>>
    /\ UNCHANGED search_vars
    /\ UNCHANGED store_vars

\* the assignments of reset_game without self.current_player = "X"
ResetState_KeepPlayer ==
    /\ UNCHANGED current_player
    /\ game_moves' = <<>>
    /\ last_game_data' = None
    /\ buttons' = EmptyBoard
    /\ enabled' = TRUE

\* the assignments of reset_game without self._game_moves = []
ResetState_KeepMoves ==
    /\ current_player' = "X"
    /\ UNCHANGED game_moves
    /\ last_game_data' = None
    /\ buttons' = EmptyBoard
    /\ enabled' = TRUE

\* the assignments of reset_game
ResetState ==
    /\ current_player' = "X"
    /\ game_moves' = <<>>
    /\ last_game_data' = None
    /\ buttons' = EmptyBoard
    /\ enabled' = TRUE

reset_game ==
    /\ error = ""
    /\ ResetState
    /\ UNCHANGED <<mode, timers, error>>
    /\ UNCHANGED search_vars
    /\ UNCHANGED store_vars

\* currentIndexChanged: the combo box moved to the entry of mode m
change_mode(m) ==
    /\ error = ""
    /\ m # mode
    /\ mode' = m
    /\ ResetState
    /\ UNCHANGED <<timers, error>>
    /\ UNCHANGED search_vars
    /\ UNCHANGED store_vars

-----------------------------------------------------------------------------
(* The event-driven game *)

InitGame ==
    /\ buttons = EmptyBoard
    /\ enabled = TRUE
    /\ current_player = "X"
    /\ mode = "Random AI"
    /\ game_moves = <<>>
    /\ last_game_data = None
    /\ timers = 0
    /\ error = ""

\* no history window is open: there is no db_manager
InitStoreIdle ==
    /\ conn = FALSE
    /\ games = <<>>
    /\ seq = 0
    /\ store_ret = [op |-> "none"]

\* no call of the engine is followed
InitSearchIdle ==
    /\ search_board = EmptyBoard
    /\ search_max = TRUE
    /\ search_ret = None

Init == InitGame /\ InitSearchIdle /\ InitStoreIdle

Click == \E i \in Range3, j \in Range3 : player_move(i, j)

TimerFires == ai_move

Reset == reset_game

ChangeMode == \E m \in Modes : change_mode(m)

Next == Click \/ TimerFires \/ Reset \/ ChangeMode

Spec == Init /\ [][Next]_vars

-----------------------------------------------------------------------------
(* The synchronous controller loop: the AI move is applied right after the   *)
(* human move that scheduled it, before any other event.                     *)

SyncClick == timers = 0 /\ Click

SyncReset == timers = 0 /\ Reset

SyncChangeMode == timers = 0 /\ ChangeMode

NextSync == SyncClick \/ TimerFires \/ SyncReset \/ SyncChangeMode

SpecSync == Init /\ [][NextSync]_vars

\* the same loop, in Smart AI mode throughout
InitSmart ==
    /\ buttons = EmptyBoard
    /\ enabled = TRUE
    /\ current_player = "X"
    /\ mode = "Smart AI"
    /\ game_moves = <<>>
    /\ last_game_data = None
    /\ timers = 0
    /\ error = ""
    /\ InitSearchIdle
    /\ InitStoreIdle

NextSmartSync == SyncClick \/ TimerFires \/ SyncReset

SpecSmartSync == InitSmart /\ [][NextSmartSync]_vars

-----------------------------------------------------------------------------
(* The event-driven game played in one mode: a mode change resets the game   *)
(* and keeps the pending timers, as Reset does.                              *)

NextGame == Click \/ TimerFires \/ Reset

\* Random AI is the mode the window starts in
SpecRandom == Init /\ [][NextGame]_vars

\* the state after change_mode to Center AI
InitCenter ==
    /\ buttons = EmptyBoard
    /\ enabled = TRUE
    /\ current_player = "X"
    /\ mode = "Center AI"
    /\ game_moves = <<>>
    /\ last_game_data = None
    /\ timers = 0
    /\ error = ""
    /\ InitSearchIdle
    /\ InitStoreIdle

SpecCenter == InitCenter /\ [][NextGame]_vars

-----------------------------------------------------------------------------
(* The engine's functions, called on every board *)

InitSearch ==
    /\ InitGame
    /\ InitStoreIdle
    /\ search_board \in AllBoards
    /\ search_max \in BOOLEAN
    /\ search_ret = None

\* score, move = self._minimax_find_best_move(board, is_maximizing_player)
SearchCall ==
    /\ search_ret = None
    /\ LET ret == minimax_find_best_move(search_board, search_max)
       IN  /\ search_ret' = [op |-> "search", board |-> search_board,
                             is_maximizing_player |-> search_max,
                             score |-> ret.score, move |-> ret.move]
           /\ search_board' = ret.board
    /\ UNCHANGED search_max
    /\ UNCHANGED game_vars
    /\ UNCHANGED store_vars

\* check_winner and is_full on buttons showing the board, next to
\* _check_winner_board and _is_full_board on the board
DetectCall ==
    /\ search_ret = None
    /\ search_ret' = [op |-> "detect", board |-> search_board,
                      winner_live |-> check_winner(search_board),
                      winner_board |-> check_winner_board(search_board),
                      full_live |-> is_full(search_board),
                      full_board |-> is_full_board(search_board)]
    /\ UNCHANGED <<search_board, search_max>>
    /\ UNCHANGED game_vars
    /\ UNCHANGED store_vars

NextSearch == SearchCall \/ DetectCall

SpecSearch == InitSearch /\ [][NextSearch]_vars

-----------------------------------------------------------------------------
(* The history store GameHistoryDB and the save button of HistoryWindow *)

RECURSIVE ReplayBoard(_, _)

\* the board after the first n moves of a history, played onto the empty board
ReplayBoard(moves, n) ==
    IF n = 0 THEN EmptyBoard
    ELSE SetCell(ReplayBoard(moves, n - 1), moves[n].row, moves[n].col, moves[n].player)

\* json.dumps of a move history: one object per move, keys in insertion order
json_dumps(moves) ==
    [k \in 1..Len(moves) |->
        <<"row", moves[k].row, "col", moves[k].col, "player", moves[k].player>>]

\* json.loads of the text of a move history
json_loads(text) ==
    [k \in 1..Len(text) |-> [row |-> text[k][2], col |-> text[k][4], player |-> text[k][6]]]

\* insert_game(game_data): what it returns, and the table and the id counter
\* after it (the date column is left out of the rows)
insert_game(game_data) ==
    IF ~conn
    THEN [ok |-> FALSE, games |-> games, seq |-> seq]
    ELSE [ok    |-> TRUE,
          games |-> Append(games, [id |-> seq + 1,
                                   mode |-> game_data.mode,
                                   winner |-> game_data.winner,
                                   move_history |-> json_dumps(game_data.move_history)]),
          seq   |-> seq + 1]

\* the orders in which a SELECT without ORDER BY may return n rows
RowOrders(n) ==
    {f \in [1..n -> 1..n] : \A k, l \in 1..n : f[k] = f[l] => k = l}

\* the dictionary get_all_games builds of a row
GameOf(row) ==
    [id |-> row.id, mode |-> row.mode, winner |-> row.winner,
     move_history |-> json_loads(row.move_history)]

\* get_all_games(): the lists it may return
get_all_games ==
    IF ~conn
    THEN {<<>>}
    ELSE {[k \in 1..Len(games) |-> GameOf(games[f[k]])] : f \in RowOrders(Len(games))}

\* delete_games_by_ids(ids): what it returns, and the table after it
delete_games_by_ids(ids) ==
    IF ~conn
    THEN [ok |-> FALSE, games |-> games]
    ELSE [ok |-> TRUE, games |-> SelectSeq(games, LAMBDA row : row.id \notin ids)]

\* two games played to their end in Player vs Player mode
XWinsGame ==
    <<Move(0, 0, "X"), Move(1, 0, "O"), Move(0, 1, "X"), Move(1, 1, "O"), Move(0, 2, "X")>>

OWinsGame ==
    <<Move(0, 0, "X"), Move(1, 0, "O"), Move(0, 1, "X"), Move(1, 1, "O"),
      Move(2, 2, "X"), Move(1, 2, "O")>>

FinishedGames == {XWinsGame, OWinsGame}

\* the game record show_result leaves at the end of the game with history h
RecordOf(h) ==
    [mode |-> "Player vs Player",
     winner |-> check_winner(ReplayBoard(h, Len(h))),
     move_history |-> h]

\* the game window at the end of the Player vs Player game with history h
GameEnded(h) ==
    /\ buttons = ReplayBoard(h, Len(h))
    /\ enabled = FALSE
    /\ current_player = h[Len(h)].player
    /\ mode = "Player vs Player"
    /\ game_moves = h
    /\ last_game_data = <<RecordOf(h)>>
    /\ timers = 0
    /\ error = ""

\* the history window opens on a new game or on an ended one; its GameHistoryDB
\* has connected to a new file or has failed to
InitStore ==
    /\ InitGame \/ \E h \in FinishedGames : GameEnded(h)
    /\ InitSearchIdle
    /\ conn \in BOOLEAN
    /\ games = <<>>
    /\ seq = 0
    /\ store_ret = [op |-> "__init__"]

\* GameHistoryDB(): a later history window connects to the same file
Connect ==
    /\ ~conn
    /\ conn' \in BOOLEAN
    /\ store_ret' = [op |-> "__init__"]
    /\ UNCHANGED <<games, seq>>
    /\ UNCHANGED <<game_vars, search_vars>>

InsertCall ==
    \E h \in FinishedGames :
        LET ret == insert_game(RecordOf(h))
        IN  /\ conn => seq < MaxGames
            /\ games' = ret.games
            /\ seq' = ret.seq
            /\ store_ret' = [op |-> "insert_game", ok |-> ret.ok]
            /\ UNCHANGED conn
            /\ UNCHANGED <<game_vars, search_vars>>

GetAllCall ==
    \E rows \in get_all_games :
        /\ store_ret' = [op |-> "get_all_games", rows |-> rows]
        /\ UNCHANGED <<conn, games, seq>>
        /\ UNCHANGED <<game_vars, search_vars>>

DeleteCall ==
    \E ids \in SUBSET (1..MaxGames) :
        LET ret == delete_games_by_ids(ids)
        IN  /\ games' = ret.games
            /\ store_ret' = [op |-> "delete_games_by_ids", ok |-> ret.ok]
            /\ UNCHANGED <<conn, seq>>
            /\ UNCHANGED <<game_vars, search_vars>>

close_connection ==
    /\ conn' = FALSE
    /\ store_ret' = [op |-> "close_connection"]
    /\ UNCHANGED <<games, seq>>
    /\ UNCHANGED <<game_vars, search_vars>>

\* save_current_game_to_db with last_game_data cleared whatever insert_game returns
save_current_game_to_db_AlwaysClears ==
    /\ last_game_data # None
    /\ LET ret == insert_game(last_game_data[1])
       IN  /\ conn => seq < MaxGames
           /\ games' = ret.games
           /\ seq' = ret.seq
           /\ last_game_data' = None
           /\ store_ret' = [op |-> "save_current_game_to_db", ok |-> ret.ok]
    /\ UNCHANGED conn
    /\ UNCHANGED <<buttons, enabled, current_player, mode, game_moves, timers, error>>
    /\ UNCHANGED search_vars

\* the button Save Current Game: insert_game(parent_game.last_game_data); the
\* record is cleared and the table reloaded only when it returned True
save_current_game_to_db ==
    /\ IF last_game_data # None
       THEN LET ret == insert_game(last_game_data[1])
            IN  /\ conn => seq < MaxGames
                /\ games' = ret.games
                /\ seq' = ret.seq
                /\ last_game_data' = (IF ret.ok THEN None ELSE last_game_data)
                /\ store_ret' = [op |-> "save_current_game_to_db", ok |-> ret.ok]
       ELSE /\ store_ret' = [op |-> "save_current_game_to_db", ok |-> FALSE]
            /\ UNCHANGED <<games, seq, last_game_data>>
    /\ UNCHANGED conn
    /\ UNCHANGED <<buttons, enabled, current_player, mode, game_moves, timers, error>>
    /\ UNCHANGED search_vars

NextStore ==
    \/ Connect
    \/ InsertCall
    \/ GetAllCall
    \/ DeleteCall
    \/ close_connection
    \/ save_current_game_to_db

SpecStore == InitStore /\ [][NextStore]_vars

-----------------------------------------------------------------------------
(* One Center AI game and the history window: from reset_game to the next    *)
(* reset_game, with the game's record saved from the modal history window.  *)

\* a HistoryWindow is open: it made its GameHistoryDB and has not closed it
HistoryOpen == store_ret.op \notin {"none", "close_connection"}

\* the state after reset_game in Center AI mode; a timer of the game before may
\* still be pending
InitSave ==
    /\ buttons = EmptyBoard
    /\ enabled = TRUE
    /\ current_player = "X"
    /\ mode = "Center AI"
    /\ game_moves = <<>>
    /\ last_game_data = None
    /\ timers \in 0..MaxTimers
    /\ error = ""
    /\ InitSearchIdle
    /\ InitStoreIdle

\* a click on the board; the modal history window takes the clicks while it is open
BoardClick == ~HistoryOpen /\ Click

\* show_history_window: HistoryWindow(self) connects (or fails to) and loads
\* the table with get_all_games(); exec() then runs the event loop
show_history_window ==
    /\ error = ""
    /\ ~HistoryOpen
    /\ conn' \in BOOLEAN
    /\ store_ret' = [op |-> "get_all_games",
                     rows |-> IF conn' THEN [k \in 1..Len(games) |-> GameOf(games[k])]
                              ELSE <<>>]
    /\ UNCHANGED <<games, seq>>
    /\ UNCHANGED <<game_vars, search_vars>>

\* the button Save Current Game of the open history window
SaveClick == error = "" /\ HistoryOpen /\ save_current_game_to_db

\* closeEvent of the history window
closeEvent == error = "" /\ HistoryOpen /\ close_connection

NextSave == BoardClick \/ TimerFires \/ show_history_window \/ SaveClick \/ closeEvent

SpecSave == InitSave /\ [][NextSave]_vars

\* the same with each AI move applied before the next event of the window
NextSaveSync ==
    \/ timers = 0 /\ (BoardClick \/ show_history_window \/ SaveClick \/ closeEvent)
    \/ TimerFires

SpecSaveSync == (InitSave /\ timers = 0) /\ [][NextSaveSync]_vars

-----------------------------------------------------------------------------
(* Properties *)

\* the 3 rows, the 3 columns and the 2 diagonals
Lines ==
    {{<<r, c>> : c \in Range3} : r \in Range3}
    \cup {{<<r, c>> : r \in Range3} : c \in Range3}
    \cup {{<<0, 0>>, <<1, 1>>, <<2, 2>>}, {<<0, 2>>, <<1, 1>>, <<2, 0>>}}

HasLine(btns, mark) == \E l \in Lines : \A rc \in l : btns[rc[1]][rc[2]] = mark

AnyLine(btns) == HasLine(btns, "X") \/ HasLine(btns, "O")

\* Ongoing: at least one empty cell and no completed line
Ongoing(btns) == EmptyCells(btns) # {} /\ ~AnyLine(btns)

\* C1 (SpecSmartSync): in Smart AI mode under strict alternation no state has a
\* completed X line, and a game that ended was won by O or drawn.
SmartNeverLoses ==
    /\ ~HasLine(buttons, "X")
    /\ last_game_data # None => last_game_data[1].winner \in {"O", "Draw"}

\* a game played to the ninth move against the search, and drawn
SmartGameDrawn ==
    /\ mode = "Smart AI"
    /\ Len(game_moves) = 9
    /\ last_game_data # None
    /\ last_game_data[1].winner = "Draw"

\* C2 (Spec): the number of X cells minus the number of O cells is 0 or 1.
MarkCountBalanced == CountOf(buttons, "X") - CountOf(buttons, "O") \in {0, 1}

\* C3 (Spec): at most one of the marks X and O has a completed line.
AtMostOneWinner == ~(HasLine(buttons, "X") /\ HasLine(buttons, "O"))

\* C4 (Spec): whenever ai_move runs in an AI mode the board is Ongoing, and the
\* search hands it a move (no TypeError on unpacking None).
AiMoveOnOngoingBoard ==
    [][(timers' = timers - 1 /\ mode # "Player vs Player")
          => (Ongoing(buttons) /\ error' = "")]_vars

\* the n-th move of a history is a step of the synchronous loop in mode m:
\* on an ongoing board, on an empty cell, X and O alternating from X, and the
\* AI's cell one its policy chooses on the board before it
SyncStep(m, moves, n) ==
    LET before == ReplayBoard(moves, n - 1)
    IN  /\ before[moves[n].row][moves[n].col] = ""
        /\ Ongoing(before)
        /\ moves[n].player = (IF n % 2 = 1 THEN "X" ELSE "O")
        /\ (m # "Player vs Player" /\ n % 2 = 0)
              => <<moves[n].row, moves[n].col>> \in ai_choices(m, before)

\* the result the synchronous loop records for a board: None while it is ongoing
SyncRecord(m, moves, btns) ==
    IF AnyLine(btns)
    THEN {None, <<[mode |-> m, winner |-> check_winner(btns), move_history |-> moves]>>}
    ELSE IF EmptyCells(btns) = {}
    THEN {None, <<[mode |-> m, winner |-> "Draw", move_history |-> moves]>>}
    ELSE {None}

\* C5 (Spec): the board, the move history and the recorded result are ones the
\* synchronous loop (AI move applied right after the human move) reaches.
DeferredMoveIsSynchronous ==
    /\ \A n \in 1..Len(game_moves) : SyncStep(mode, game_moves, n)
    /\ buttons = ReplayBoard(game_moves, Len(game_moves))
    /\ last_game_data \in SyncRecord(mode, game_moves, buttons)

\* the board whose only marks are X at (0,0) and X at (1,1)
DiagonalBoard == SetCell(SetCell(EmptyBoard, 0, 0, "X"), 1, 1, "X")

SearchedDiagonalBoard ==
    /\ search_ret # None
    /\ search_ret.op = "search"
    /\ search_ret.board = DiagonalBoard
    /\ search_ret.is_maximizing_player

\* C6 as stated (SpecSearch): on that board, O to move, the search returns (2,2).
DiagonalBoardReturnsBlock ==
    SearchedDiagonalBoard => search_ret.move = <<2, 2>>

\* C6 as amended (SpecSearch): on that board, O to move, every O move loses
\* (score -1) and the search returns the first empty cell in row-major order, (0,1).
DiagonalBoardReturnsFirstCell ==
    SearchedDiagonalBoard => (search_ret.score = -1 /\ search_ret.move = <<0, 1>>)

SearchedEmptyBoard ==
    /\ search_ret # None
    /\ search_ret.op = "search"
    /\ search_ret.board = EmptyBoard
    /\ search_ret.is_maximizing_player

\* C7 (SpecSearch): on the empty board the search (maximizing) returns score 0
\* and the move (0,0), a corner.
EmptyBoardReturnsCorner ==
    SearchedEmptyBoard => (search_ret.score = 0 /\ search_ret.move = <<0, 0>>)

\* C8 (SpecSearch): a call of the search leaves all 9 cells of the board handed
\* to it as they were.
SearchRestoresBoard == [][search_board' = search_board]_vars

\* a search that recursed (it returned a move) on a board with marks of both sides
SearchedMidGame ==
    /\ search_ret # None
    /\ search_ret.op = "search"
    /\ search_ret.move # None
    /\ CountOf(search_ret.board, "X") = 2
    /\ CountOf(search_ret.board, "O") = 2
    /\ search_board = search_ret.board

\* what the claim says is recorded for the board after a move
RecordAfterMove(btns, before, after) ==
    IF AnyLine(btns)
    THEN /\ after # None
         /\ after[1].winner = check_winner(btns)
         /\ HasLine(btns, after[1].winner)
    ELSE IF EmptyCells(btns) = {}
    THEN after # None /\ after[1].winner = "Draw"
    ELSE after = before /\ after = None

\* the score of the search's base case: a line before a full board
BaseScore(board) ==
    LET ret == minimax_find_best_move(board, TRUE)
    IN  IF HasLine(board, check_winner_board(board))
        THEN /\ ret.move = None
             /\ ret.score = (IF check_winner_board(board) = "O" THEN 1 ELSE -1)
        ELSE IF EmptyCells(board) = {}
        THEN ret.move = None /\ ret.score = 0
        ELSE ret.move # None

\* C9 (Spec): after any move (a mark placed by player_move or ai_move) the
\* recorded winner is check_winner's mark when a line is complete, also on a
\* full board; "Draw" only when full with no line; nothing otherwise; and the
\* search's base case scores the board in the same order.
WinBeforeDraw ==
    [][Len(game_moves') = Len(game_moves) + 1
          => /\ RecordAfterMove(buttons', last_game_data, last_game_data')
             /\ BaseScore(buttons')]_vars

\* the ninth move completed a line: recorded as a win, not as a draw
WonOnNinthMove ==
    /\ Len(game_moves) = 9
    /\ EmptyCells(buttons) = {}
    /\ AnyLine(buttons)
    /\ last_game_data # None
    /\ last_game_data[1].winner \in Marks

\* C10 (SpecSearch): on every assignment of the 9 cells check_winner and
\* _check_winner_board return the same value, and is_full and _is_full_board too.
DetectionAgrees ==
    (search_ret # None /\ search_ret.op = "detect")
        => /\ search_ret.winner_live = search_ret.winner_board
           /\ search_ret.full_live = search_ret.full_board

\* both scans answered on a board with a completed column of X and a completed
\* column of O, where the interleaved scan meets a column before the second row
DetectedTwoColumns ==
    /\ search_ret # None
    /\ search_ret.op = "detect"
    /\ HasLine(search_ret.board, "X")
    /\ HasLine(search_ret.board, "O")
    /\ search_ret.winner_live = "O"

\* C11 (Spec): a click on a non-empty cell changes nothing (the board, the move
\* history, current_player, last_game_data, the pending timers), and no step
\* but a reset changes the mark of a non-empty cell.
OccupiedCellRejected ==
    /\ [](\A i \in Range3, j \in Range3 :
             buttons[i][j] # "" => ~ENABLED (player_move(i, j) /\ vars' # vars))
    /\ [][\/ buttons' = EmptyBoard
          \/ \A i \in Range3, j \in Range3 :
                 buttons[i][j] # "" => buttons'[i][j] = buttons[i][j]]_vars

\* a board open to clicks that holds marks of both players while a timer is pending
ClickableOccupiedBoard ==
    /\ enabled
    /\ error = ""
    /\ timers > 0
    /\ CountOf(buttons, "X") > 0
    /\ CountOf(buttons, "O") > 0

\* the step is ai_move: it alone takes a pending timer away
AiMoveStep == timers' = timers - 1

\* the step places O on one of the cells, recorded as a move, and changes no other cell
PlacesO(cells) ==
    \E rc \in cells :
        /\ buttons' = SetCell(buttons, rc[1], rc[2], "O")
        /\ game_moves' = Append(game_moves, Move(rc[1], rc[2], "O"))

\* ai_move can fire and place O on the cell
CanPlaceO(rc) == ENABLED (ai_move /\ buttons' = SetCell(buttons, rc[1], rc[2], "O"))

LastMoveIs(i, j, player) ==
    Len(game_moves) > 0 /\ game_moves[Len(game_moves)] = Move(i, j, player)

\* C12 (SpecCenter): in Center AI mode ai_move places O at (1,1) whenever that
\* cell is empty; otherwise, when some cell is empty, it places O on exactly one
\* empty cell, and every empty cell is a possible choice.
CenterFirst ==
    /\ [][(AiMoveStep /\ mode = "Center AI")
             => IF buttons[1][1] = "" THEN PlacesO({<<1, 1>>})
                ELSE IF EmptyCells(buttons) # {} THEN PlacesO(EmptyCells(buttons))
                ELSE TRUE]_vars
    /\ []((mode = "Center AI" /\ timers > 0 /\ error = "" /\ buttons[1][1] # "")
             => \A rc \in EmptyCells(buttons) : CanPlaceO(rc))

\* the AI took the empty center with its first move and, the center being
\* occupied, another cell with its second
CenterThenElsewhere ==
    /\ mode = "Center AI"
    /\ Len(game_moves) = 4
    /\ game_moves[2] = Move(1, 1, "O")
    /\ game_moves[4].player = "O"

\* C13 (SpecRandom): in Random AI mode ai_move on a board with an empty cell
\* places O on exactly one cell that was empty and changes no other cell, and
\* every empty cell is a possible choice.
RandomPicksEmptyCell ==
    /\ [][(AiMoveStep /\ mode = "Random AI" /\ EmptyCells(buttons) # {})
             => PlacesO(EmptyCells(buttons))]_vars
    /\ []((mode = "Random AI" /\ timers > 0 /\ error = "")
             => \A rc \in EmptyCells(buttons) : CanPlaceO(rc))

\* the AI has just filled the last empty cell of a board
RandomFilledLastCell ==
    /\ mode = "Random AI"
    /\ EmptyCells(buttons) = {}
    /\ Len(game_moves) = 9
    /\ game_moves[9].player = "O"

\* the result a finished board evaluates to: the mark of a completed line, or
\* Draw on a full board without one
Evaluates(btns, winner) ==
    IF AnyLine(btns) THEN winner \in Marks /\ HasLine(btns, winner)
    ELSE EmptyCells(btns) = {} /\ winner = "Draw"

\* C14 (Spec): whenever last_game_data is set, its move_history replayed onto
\* an empty board is terminal only after its last move, and the replayed board
\* evaluates to the stored winner.
RecordRoundTrip ==
    last_game_data # None =>
        LET rec == last_game_data[1]
            n   == Len(rec.move_history)
        IN  /\ \A k \in 0..(n - 1) : Ongoing(ReplayBoard(rec.move_history, k))
            /\ ~Ongoing(ReplayBoard(rec.move_history, n))
            /\ Evaluates(ReplayBoard(rec.move_history, n), rec.winner)

\* C15 (Spec): once last_game_data is set, a step either leaves it as it is or
\* discards it (after a save, a reset or a mode change).
RecordImmutable ==
    [][last_game_data # None =>
          (last_game_data' = last_game_data \/ last_game_data' = None)]_vars

\* C16 (Spec): the move history lists, in play order, exactly the marks on the
\* board: as many entries as non-empty cells, each entry's cell holding the
\* entry's mark, no cell twice; and is_full() holds iff 9 moves are recorded.
HistoryMatchesBoard ==
    /\ Len(game_moves) = 9 - Cardinality(EmptyCells(buttons))
    /\ \A k \in 1..Len(game_moves) :
           buttons[game_moves[k].row][game_moves[k].col] = game_moves[k].player
    /\ \A k, l \in 1..Len(game_moves) :
           (game_moves[k].row = game_moves[l].row /\ game_moves[k].col = game_moves[l].col)
               => k = l
    /\ ReplayBoard(game_moves, Len(game_moves)) = buttons
    /\ is_full(buttons) <=> Len(game_moves) = 9

\* a board filled by 9 recorded moves and finalized as a draw
DrawnAfterNineMoves ==
    /\ is_full(buttons)
    /\ Len(game_moves) = 9
    /\ last_game_data # None
    /\ last_game_data[1].winner = "Draw"

\* C17 (Spec): ai_move invoked in one of the three AI modes on a board with no
\* empty cell ends in an error; it never returns silently.
FullBoardAiMoveFails ==
    [][(AiMoveStep /\ mode # "Player vs Player" /\ EmptyCells(buttons) = {})
          => error' # ""]_vars

\* C18 (SpecStore): get_all_games on a connected store returns exactly the
\* records in the store, ordered by id descending.
ListedNewestFirst ==
    (store_ret.op = "get_all_games" /\ conn) =>
        LET rows == store_ret.rows
        IN  /\ Len(rows) = Len(games)
            /\ {rows[k] : k \in 1..Len(rows)} = {GameOf(games[k]) : k \in 1..Len(games)}
            /\ \A k, l \in 1..Len(rows) : k < l => rows[k].id > rows[l].id

\* C19 (SpecStore): without a connection, a call leaves the table, the id
\* counter and the game state (last_game_data included) as they are, raises
\* nothing, and returns False (insert_game, delete_games_by_ids, the insert of
\* save_current_game_to_db) or an empty list (get_all_games).
FailuresReported ==
    [][~conn =>
          /\ UNCHANGED <<games, seq>>
          /\ UNCHANGED game_vars
          /\ store_ret'.op \in {"insert_game", "delete_games_by_ids", "save_current_game_to_db"}
                 => store_ret'.ok = FALSE
          /\ store_ret'.op = "get_all_games" => store_ret'.rows = <<>>]_vars

\* a save that failed on a closed store holding rows, the record still set
FailedSaveKeepsRecord ==
    /\ store_ret.op = "save_current_game_to_db"
    /\ ~store_ret.ok
    /\ ~conn
    /\ games # <<>>
    /\ last_game_data # None

\* the score the search returns for the board with the mover's mark on cell rc
ChildScore(board, is_max, rc) ==
    minimax_find_best_move(SetCell(board, rc[1], rc[2], IF is_max THEN "O" ELSE "X"),
                           ~is_max).score

\* the best of the child scores: the maximum, or the minimum for the minimizer
BestChildScore(board, is_max) ==
    CHOOSE s \in {ChildScore(board, is_max, rc) : rc \in EmptyCells(board)} :
        \A rc \in EmptyCells(board) :
            IF is_max THEN ChildScore(board, is_max, rc) <= s
            ELSE ChildScore(board, is_max, rc) >= s

\* the first cell in row-major order whose child score is the best one
FirstBestCell(board, is_max) ==
    CHOOSE rc \in EmptyCells(board) :
        /\ ChildScore(board, is_max, rc) = BestChildScore(board, is_max)
        /\ \A other \in EmptyCells(board) :
               ChildScore(board, is_max, other) = BestChildScore(board, is_max)
                   => 3 * rc[1] + rc[2] <= 3 * other[1] + other[2]

\* C20 (SpecSearch): every score the search returns is -1, 0 or +1; on a board
\* with an empty cell and no line it returns the maximum (maximizing) or the
\* minimum (minimizing) of the child scores and, as move, the first cell in
\* row-major order that attains it, with no preference for a faster win.
FirstBestInRowMajorOrder ==
    (search_ret # None /\ search_ret.op = "search") =>
        /\ search_ret.score \in {-1, 0, 1}
        /\ Ongoing(search_ret.board) =>
               /\ search_ret.score =
                      BestChildScore(search_ret.board, search_ret.is_maximizing_player)
               /\ search_ret.move =
                      FirstBestCell(search_ret.board, search_ret.is_maximizing_player)

\* the search returned a winning move that completes no line although a later
\* cell completes an O line at once
SlowerWinReturned ==
    /\ search_ret # None
    /\ search_ret.op = "search"
    /\ search_ret.is_maximizing_player
    /\ Ongoing(search_ret.board)
    /\ search_ret.score = 1
    /\ ~HasLine(SetCell(search_ret.board, search_ret.move[1], search_ret.move[2], "O"), "O")
    /\ \E rc \in EmptyCells(search_ret.board) :
           /\ 3 * rc[1] + rc[2] > 3 * search_ret.move[1] + search_ret.move[2]
           /\ HasLine(SetCell(search_ret.board, rc[1], rc[2], "O"), "O")

\* the n-th move of the history was X's, left the game ongoing, and the search
\* on the board after it (O's turn) returns score +1
WonAtTurn(n) ==
    /\ game_moves[n].player = "X"
    /\ Ongoing(ReplayBoard(game_moves, n))
    /\ minimax_find_best_move(ReplayBoard(game_moves, n), TRUE).score = 1

\* C21 (SpecSmartSync): once the search has returned +1 at an O turn of the
\* game, the game has no X line, is not full without an O line, and a result,
\* once recorded, is an O win.
WonPositionConverted ==
    (\E n \in 1..Len(game_moves) : WonAtTurn(n)) =>
        /\ ~HasLine(buttons, "X")
        /\ EmptyCells(buttons) = {} => HasLine(buttons, "O")
        /\ ~Ongoing(buttons) => HasLine(buttons, "O")
        /\ last_game_data # None => last_game_data[1].winner = "O"

\* a game won by O at least two O moves after the search first returned +1
\* on a board where O had no line to complete at once
SlowWinConverted ==
    /\ mode = "Smart AI"
    /\ last_game_data # None
    /\ last_game_data[1].winner = "O"
    /\ \E n \in 1..Len(game_moves) :
           /\ WonAtTurn(n)
           /\ Len(game_moves) >= n + 3
           /\ \A rc \in EmptyCells(ReplayBoard(game_moves, n)) :
                  ~HasLine(SetCell(ReplayBoard(game_moves, n), rc[1], rc[2], "O"), "O")

\* the mark of the k-th move of a game X opens
TurnOf(k) == IF k % 2 = 1 THEN "X" ELSE "O"

\* C22 (Spec): in Player vs Player mode the recorded moves alternate X, O, X,
\* ... from X, and while the game is ongoing current_player is the mark of the
\* next move; an ai_move that fires in this mode changes nothing but the timer
\* count; a move that leaves the game ongoing toggles current_player, any other
\* move leaves it.
PvPMovesAlternate ==
    /\ [](mode = "Player vs Player" =>
             /\ \A k \in 1..Len(game_moves) : game_moves[k].player = TurnOf(k)
             /\ Ongoing(buttons) => current_player = TurnOf(Len(game_moves) + 1))
    /\ [][(mode = "Player vs Player" /\ AiMoveStep) =>
             UNCHANGED <<buttons, enabled, current_player, mode, game_moves,
                         last_game_data, error>>]_vars
    /\ [][(mode = "Player vs Player" /\ Len(game_moves') = Len(game_moves) + 1) =>
             IF Ongoing(buttons')
             THEN current_player' # current_player
             ELSE current_player' = current_player]_vars

\* a Player vs Player game at O's turn while a timer of an earlier AI game is pending
PvPGameWithStaleTimer ==
    /\ mode = "Player vs Player"
    /\ timers > 0
    /\ enabled
    /\ Len(game_moves) = 3
    /\ current_player = "O"

\* C23 (Spec): in the three AI modes current_player is X in every state, every
\* move player_move records has player X and every move ai_move records has
\* player O.
MarksBoundToSides ==
    /\ [](mode # "Player vs Player" => current_player = "X")
    /\ [][(mode # "Player vs Player" /\ Len(game_moves') = Len(game_moves) + 1) =>
             game_moves'[Len(game_moves')].player = (IF AiMoveStep THEN "O" ELSE "X")]_vars

\* an AI game a timer of the game before opened with O, answered by a click
StaleOpeningThenClick ==
    /\ mode # "Player vs Player"
    /\ Len(game_moves) = 2
    /\ game_moves[1].player = "O"
    /\ game_moves[2].player = "X"
    /\ current_player = "X"

\* C24 (SpecSave): between two resets at most one row is inserted for the
\* game, and the save that inserts it clears last_game_data.
GamePersistedOnce ==
    /\ [](Len(games) <= 1)
    /\ [][Len(games') > Len(games) => last_game_data' = None]_vars

====
